---------------------------- MODULE Spec2Model ----------------------------
(***************************************************************************)
(* A model of geodata/dems.py: the Planetary class (catalog query and      *)
(* download with the skip-if-exists rule) and the Copernicus class (tile   *)
(* URL construction from a bounding box, existence probing, tile download  *)
(* and the gdalbuildvrt calls).                                            *)
(*                                                                         *)
(* Text the code takes apart (an asset href, split on "/") is a sequence   *)
(* of one-character strings; text the code only builds by concatenation    *)
(* (tile names, URLs, commands) is a string, built with \o as the code     *)
(* builds it with +.                                                       *)
(***************************************************************************)
EXTENDS Integers, Sequences, FiniteSets, TLC

VARIABLES
    \* ---- Planetary ----
    p_overwrite,      \* self.overwrite
    p_disk,           \* the files of output_folder, by name (the world)
    items,            \* self.items: the 'data' asset href of each item
    dsm_file_names,   \* self.dsm_file_names
    exist,            \* download_3DEP_DSM's local list
    payload,          \* download_3DEP_DSM's local list
    p_i,              \* number of payload entries already downloaded
    p_pc,             \* "idle" | "downloading"
    p_outcome,        \* how the last call ended
    p_snapshot,       \* history: p_disk when the files were classified
    p_had_names,      \* history: the latest request_items found a non-empty list
    p_written,        \* history: the paths written by the current call, in order
    \* ---- Copernicus: the client's constructor arguments and the world ----
    arg_collection,   \* collection given to Copernicus(...)
    arg_bbox,         \* bbox given, each coordinate in units of 1/Scale degree
    arg_overwrite,    \* overwrite given
    remote,           \* the s3 URLs that fs.open can open
    disk,             \* the tile files of output_folder, by path
    vrt,              \* the VRT file: "absent", "preexisting" or the command that built it
    \* ---- Copernicus: the instance ----
    attrs,            \* the attributes set on the instance
    base_url_s3, base_url_http, bbox, overwrite, arcsecond, local_tiles,
    s3_urls, http_urls,
    \* ---- Copernicus: the running call ----
    pc,               \* where the running call stands; "idle" between calls
    op,               \* the method the client called last
    outcome,          \* how the last call ended
    error_message,    \* the message of the ValueError build_urls raised
    lons, lats,       \* build_urls: the np.arange results
    lons_str, lats_str,
    i_lon, i_lat,     \* build_urls: the loop positions
    missing_tiles,
    bu_status,        \* history: the latest build_urls: none/running/returned/raised
    probed,           \* history: the probes of the latest build_urls, in order
    dl_overwrite,     \* download_tiles: its overwrite parameter
    output_files, to_download,
    dl_j,             \* download_tiles: entries of to_download already written
    written,          \* history: the paths the current call wrote, in order
    disk_at_call,     \* history: disk when the current call began
    vrt_at_call,      \* history: vrt when the current call began
    arg_local_tiles,  \* build_vrt_from_local_tiles: its local_tiles parameter
    command,          \* the gdalbuildvrt command line
    ran_cmd           \* history: subprocess.run was called by the current call

p_vars == <<p_overwrite, p_disk, items, dsm_file_names, exist, payload, p_i,
            p_pc, p_outcome, p_snapshot, p_had_names, p_written>>

world_vars == <<arg_collection, arg_bbox, arg_overwrite, remote>>

self_vars == <<attrs, base_url_s3, base_url_http, bbox, overwrite, arcsecond>>

url_vars == <<s3_urls, http_urls, error_message, lons, lats, lons_str, lats_str,
              i_lon, i_lat, missing_tiles, bu_status, probed>>

dl_vars == <<dl_overwrite, output_files, to_download, dl_j, written,
             disk_at_call>>

vrt_vars == <<vrt, vrt_at_call, arg_local_tiles, command, ran_cmd>>

c_vars == <<world_vars, self_vars, url_vars, dl_vars, vrt_vars, disk,
            local_tiles, pc, op, outcome>>

vars == <<p_vars, c_vars>>

---------------------------------------------------------------------------
(* Helpers *)

Range(s) == {s[i] : i \in 1..Len(s)}

SeqsUpTo(S, n) == UNION {[1..m -> S] : m \in 0..n}

NoDuplicates(s) == \A i, j \in 1..Len(s) : i # j => s[i] # s[j]

\* A Planetary instance that is never called.
PlanetaryUnused ==
    /\ p_overwrite = FALSE
    /\ p_disk = {}
    /\ items = <<>>
    /\ dsm_file_names = <<>>
    /\ exist = <<>>
    /\ payload = <<>>
    /\ p_i = 0
    /\ p_pc = "idle"
    /\ p_outcome = "none"
    /\ p_snapshot = {}
    /\ p_had_names = FALSE
    /\ p_written = <<>>

\* Before Copernicus(...) is called: no instance, no call.
CopernicusNew ==
    /\ attrs = {}
    /\ base_url_s3 = ""
    /\ base_url_http = ""
    /\ bbox = <<0, 0, 0, 0>>
    /\ overwrite = FALSE
    /\ arcsecond = ""
    /\ local_tiles = <<>>
    /\ s3_urls = <<>>
    /\ http_urls = <<>>
    /\ pc = "new"
    /\ op = "none"
    /\ outcome = "none"
    /\ error_message = ""
    /\ lons = <<>>
    /\ lats = <<>>
    /\ lons_str = <<>>
    /\ lats_str = <<>>
    /\ i_lon = 1
    /\ i_lat = 1
    /\ missing_tiles = <<>>
    /\ bu_status = "none"
    /\ probed = <<>>
    /\ dl_overwrite = FALSE
    /\ output_files = <<>>
    /\ to_download = <<>>
    /\ dl_j = 0
    /\ written = <<>>
    /\ disk_at_call = {}
    /\ vrt_at_call = "absent"
    /\ arg_local_tiles = <<>>
    /\ command = ""
    /\ ran_cmd = FALSE

\* A Copernicus instance that is never built.
CopernicusUnused ==
    /\ arg_collection = "copernicus-dem-90m"
    /\ arg_bbox = <<0, 0, 0, 0>>
    /\ arg_overwrite = FALSE
    /\ remote = {}
    /\ disk = {}
    /\ vrt = "absent"
    /\ CopernicusNew

---------------------------------------------------------------------------
(* Planetary *)

\* The longest item collection the catalog returns in the model.
MaxItems == 2

\* The 'data' asset hrefs an item may carry: two that end in the same file
\* name, one without any "/", one that ends in "/".
Hrefs == { <<"h", "/", "a">>, <<"g", "/", "a">>, <<"b">>, <<"h", "/">> }

\* An item collection: distinct items, each with its own 'data' href.
CatalogResults == {r \in SeqsUpTo(Hrefs, MaxItems) : NoDuplicates(r)}

\* url.split("/"): a left-to-right scan, a new segment at every "/".
RECURSIVE SplitFrom(_, _, _)
SplitFrom(s, i, acc) ==
    IF i > Len(s) THEN acc
    ELSE IF s[i] = "/"
         THEN SplitFrom(s, i + 1, Append(acc, <<>>))
         ELSE SplitFrom(s, i + 1, [acc EXCEPT ![Len(acc)] = Append(@, s[i])])

Split(s) == SplitFrom(s, 1, << <<>> >>)

\* url.split("/")[-1]
FileNameOf(url) == Split(url)[Len(Split(url))]

\* An accumulating slip: the new names appended to the previous list.
RequestedNamesAppending(result) ==
    dsm_file_names \o [i \in 1..Len(result) |-> FileNameOf(result[i])]

\* dsm_file_names = []; for i in self.items: dsm_file_names.append(...)
RequestedNames(result) == [i \in 1..Len(result) |-> FileNameOf(result[i])]

\* Path(self.output_folder, fn).exists(), the folder having been created by
\* request_items: the empty name is the folder itself.
PathExists(fn, files) == fn = <<>> \/ fn \in files

\* A plausible slip: the overwrite flag ignored.
SkipsIgnoringOverwrite(fn, files) == PathExists(fn, files)

\* out.exists() and not self.overwrite
Skips(fn, files) == PathExists(fn, files) /\ ~p_overwrite

\* The classification loop: the names in order, each appended to one list.
RECURSIVE ClassifyFrom(_, _, _, _)
ClassifyFrom(names, i, files, acc) ==
    IF i > Len(names) THEN acc
    ELSE IF Skips(names[i], files)
         THEN ClassifyFrom(names, i + 1, files,
                           [acc EXCEPT !.exist = Append(@, names[i])])
         ELSE ClassifyFrom(names, i + 1, files,
                           [acc EXCEPT !.payload = Append(@, names[i])])

Classify(names, files) ==
    ClassifyFrom(names, 1, files, [exist |-> <<>>, payload |-> <<>>])

\* Planetary.request_items, called by the client.  The locals of an earlier
\* download_3DEP_DSM call, and its history, are gone by then.
request_items ==
    /\ p_pc = "idle"
    /\ \E result \in CatalogResults :
         /\ items' = result
         /\ dsm_file_names' = RequestedNames(result)
    /\ p_outcome' = "request_items returned"
    /\ exist' = <<>>
    /\ payload' = <<>>
    /\ p_i' = 0
    /\ p_snapshot' = {}
    /\ p_written' = <<>>
    /\ p_had_names' = (dsm_file_names # <<>>)
    /\ UNCHANGED <<p_overwrite, p_disk, p_pc, c_vars>>

\* Planetary.download_3DEP_DSM up to the download loop: request_items, then
\* the classification; with nothing to download the call returns here.
download_3DEP_DSM ==
    /\ p_pc = "idle"
    /\ \E result \in CatalogResults :
         LET names == RequestedNames(result)
             lists == Classify(names, p_disk)
         IN  /\ items' = result
             /\ dsm_file_names' = names
             /\ exist' = lists.exist
             /\ payload' = lists.payload
             /\ p_pc' = IF lists.payload # <<>> THEN "downloading" ELSE "idle"
             /\ p_outcome' = IF lists.payload # <<>> THEN "running"
                             ELSE "download_3DEP_DSM returned"
    /\ p_snapshot' = p_disk
    /\ p_written' = <<>>
    /\ p_i' = 0
    /\ p_had_names' = (dsm_file_names # <<>>)
    /\ UNCHANGED <<p_overwrite, p_disk, c_vars>>

\* The path ds.rio.to_raster writes: fn, the loop variable.
WriteTarget == payload[p_i + 1]

\* One turn of "for fn in payload": the item is fetched, signed, opened and
\* written.  A name that is the folder itself cannot be written.
DownloadOne ==
    /\ p_pc = "downloading"
    /\ p_i < Len(payload)
    /\ WriteTarget # <<>>
    /\ p_disk' = p_disk \cup {WriteTarget}
    /\ p_written' = Append(p_written, WriteTarget)
    /\ p_i' = p_i + 1
    /\ p_pc' = IF p_i + 1 = Len(payload) THEN "idle" ELSE "downloading"
    /\ p_outcome' = IF p_i + 1 = Len(payload)
                    THEN "download_3DEP_DSM returned" ELSE "running"
    /\ UNCHANGED <<p_overwrite, items, dsm_file_names, exist, payload,
                   p_snapshot, p_had_names, c_vars>>

\* The fetch, the signing or the write raises: nothing catches it.
DownloadFails ==
    /\ p_pc = "downloading"
    /\ p_i < Len(payload)
    /\ p_pc' = "idle"
    /\ p_outcome' = "download_3DEP_DSM raised"
    /\ UNCHANGED <<p_overwrite, p_disk, items, dsm_file_names, exist, payload,
                   p_i, p_snapshot, p_had_names, p_written, c_vars>>

PlanetaryFiles == {FileNameOf(h) : h \in Hrefs} \ {<<>>}

InitPlanetary ==
    /\ CopernicusUnused
    /\ p_overwrite \in BOOLEAN
    /\ p_disk \in SUBSET PlanetaryFiles
    /\ items = <<>>
    /\ dsm_file_names = <<>>
    /\ exist = <<>>
    /\ payload = <<>>
    /\ p_i = 0
    /\ p_pc = "idle"
    /\ p_outcome = "none"
    /\ p_snapshot = {}
    /\ p_had_names = FALSE
    /\ p_written = <<>>

NextPlanetary ==
    \/ request_items
    \/ download_3DEP_DSM
    \/ DownloadOne
    \/ DownloadFails

SpecPlanetary == InitPlanetary /\ [][NextPlanetary]_vars

---------------------------------------------------------------------------
(* Planetary: the claims *)

\* download_3DEP_DSM has classified the file names of its query.
Classified ==
    p_outcome \in {"running", "download_3DEP_DSM returned",
                   "download_3DEP_DSM raised"}

\* C3: in download_3DEP_DSM every queried file name is in exactly one of
\* exist and payload, and in exist exactly when its path existed at
\* classification time and overwrite is False; the k-th write goes to the
\* k-th payload path and nothing else is written, so with overwrite False
\* no file that existed is rewritten, and a call that returns with overwrite
\* True has rewritten every queried file.
C3_SkipIfExists ==
    Classified =>
        /\ Len(exist) + Len(payload) = Len(dsm_file_names)
        /\ \A i \in 1..Len(dsm_file_names) :
             LET fn == dsm_file_names[i]
             IN  /\ (fn \in Range(exist)) # (fn \in Range(payload))
                 /\ (fn \in Range(exist)) <=>
                        ((fn = <<>> \/ fn \in p_snapshot) /\ ~p_overwrite)
        /\ Len(p_written) <= Len(payload)
        /\ \A k \in 1..Len(p_written) : p_written[k] = payload[k]
        /\ ~p_overwrite => \A k \in 1..Len(p_written) : p_written[k] \notin p_snapshot
        /\ (p_overwrite /\ p_outcome = "download_3DEP_DSM returned")
               => Range(dsm_file_names) \subseteq Range(p_written)

\* C3's case: a call with overwrite False that skipped an existing file and
\* wrote a missing one.
C3_Witness ==
    /\ p_outcome = "download_3DEP_DSM returned"
    /\ ~p_overwrite
    /\ exist # <<>>
    /\ p_written # <<>>
    /\ Range(exist) \subseteq p_snapshot

\* C4: within one call of download_3DEP_DSM each distinct output path is
\* written at most once, whatever items the catalog returned.
C4_EachPathWrittenOnce == NoDuplicates(p_written)

\* The last "/"-separated segment of an href, said without the scan: a
\* suffix free of "/" that is the whole href or follows a "/".
IsLastSegment(name, href) ==
    /\ "/" \notin Range(name)
    /\ \E k \in 0..Len(href) :
         /\ SubSeq(href, k + 1, Len(href)) = name
         /\ k = 0 \/ href[k] = "/"

\* C6: after request_items, dsm_file_names is as long as the item collection
\* and its i-th entry is the last "/"-separated segment of the i-th item's
\* 'data' href; a repeated call replaces the list.
C6_NamesFollowItems ==
    /\ Len(dsm_file_names) = Len(items)
    /\ \A i \in 1..Len(items) : IsLastSegment(dsm_file_names[i], items[i])

\* C6's case: a repeated request_items, run when the list already held
\* names, that found items again.
C6_Witness ==
    /\ p_outcome = "request_items returned"
    /\ p_had_names
    /\ Len(items) = MaxItems
    /\ \E i \in 1..Len(items) : dsm_file_names[i] # items[i]

---------------------------------------------------------------------------
(* dataquery/dems.py: download_planetary_3DEP_DSM, the function that      *)
(* Planetary.download_3DEP_DSM was made from.  It runs on the Planetary    *)
(* state: p_overwrite is its overwrite argument, dsm_file_names, exist and *)
(* payload are its locals, and its query and classification are the same   *)
(* statements as Planetary's.                                               *)

\* out, as the classification loop leaves it: the path of the last name.
OutAfterClassification == dsm_file_names[Len(dsm_file_names)]

\* The path ds.rio.to_raster writes: out, not the loop variable fn.
DataqueryWriteTarget == OutAfterClassification

\* download_planetary_3DEP_DSM up to the download loop: the query, the
\* names, the classification.  With nothing matched it returns False; with
\* every matched file skipped it falls off the end and returns None.
download_planetary_3DEP_DSM ==
    /\ p_pc = "idle"
    /\ \E result \in CatalogResults :
         LET names == RequestedNames(result)
             lists == Classify(names, p_disk)
         IN  /\ items' = result
             /\ dsm_file_names' = names
             /\ exist' = lists.exist
             /\ payload' = lists.payload
             /\ p_pc' = IF lists.payload # <<>> THEN "dq_downloading" ELSE "idle"
             /\ p_outcome' = IF lists.payload # <<>> THEN "running"
                             ELSE IF lists.exist = <<>> THEN "returned False"
                             ELSE "returned None"
    /\ p_snapshot' = p_disk
    /\ p_written' = <<>>
    /\ p_i' = 0
    /\ p_had_names' = FALSE
    /\ UNCHANGED <<p_overwrite, p_disk, c_vars>>

\* One turn of "for fn in payload": the item of fn is fetched, signed and
\* opened, and written to out; after the last turn the function returns
\* True.  A path that is the folder itself cannot be written.
DataqueryDownloadOne ==
    /\ p_pc = "dq_downloading"
    /\ p_i < Len(payload)
    /\ DataqueryWriteTarget # <<>>
    /\ p_disk' = p_disk \cup {DataqueryWriteTarget}
    /\ p_written' = Append(p_written, DataqueryWriteTarget)
    /\ p_i' = p_i + 1
    /\ p_pc' = IF p_i + 1 = Len(payload) THEN "idle" ELSE "dq_downloading"
    /\ p_outcome' = IF p_i + 1 = Len(payload) THEN "returned True" ELSE "running"
    /\ UNCHANGED <<p_overwrite, items, dsm_file_names, exist, payload,
                   p_snapshot, p_had_names, c_vars>>

\* The fetch, the signing or the write raises: nothing catches it.
DataqueryDownloadFails ==
    /\ p_pc = "dq_downloading"
    /\ p_i < Len(payload)
    /\ p_pc' = "idle"
    /\ p_outcome' = "raised"
    /\ UNCHANGED <<p_overwrite, p_disk, items, dsm_file_names, exist, payload,
                   p_i, p_snapshot, p_had_names, p_written, c_vars>>

NextDataquery ==
    \/ download_planetary_3DEP_DSM
    \/ DataqueryDownloadOne
    \/ DataqueryDownloadFails

SpecDataquery == InitPlanetary /\ [][NextDataquery]_vars

\* C11: when download_planetary_3DEP_DSM returns True, every file name the
\* query matched exists in the output folder, each payload file having been
\* written to its own path output_folder/name.
C11_TrueMeansAllFilesPresent ==
    p_outcome = "returned True" =>
        /\ \A n \in 1..Len(dsm_file_names) :
             dsm_file_names[n] = <<>> \/ dsm_file_names[n] \in p_disk
        /\ Len(p_written) = Len(payload)
        /\ \A k \in 1..Len(payload) : p_written[k] = payload[k]

---------------------------------------------------------------------------
(* Copernicus: construction and build_urls *)

\* A bounding-box coordinate is a whole number of 1/Scale degrees.
Scale == 2

VALID_COLLECTIONS == {"copernicus-dem-90m", "copernicus-dem-30m"}

\* The collections a client may ask for: the valid ones and one that is not.
Collections == VALID_COLLECTIONS \cup {"copernicus-dem-10m"}

\* A plausible slip: no validation.
AcceptsAnyCollection(c) == TRUE

\* collection in VALID_COLLECTIONS
ValidCollection(c) == c \in VALID_COLLECTIONS

\* "3" if collection == "copernicus-dem-90m" else "1"
ArcsecondOf(c) == IF c = "copernicus-dem-90m" THEN "3" ELSE "1"

ConstructedAttrs ==
    {"base_url_s3", "base_url_http", "bbox", "output_folder", "overwrite",
     "arcsecond", "fs", "local_tiles"}

\* output_folder, left at its default.
OutputFolder == "downloads/Copernicus"

\* Copernicus.__init__
Copernicus_init ==
    /\ pc = "new"
    /\ op' = "__init__"
    /\ IF ~ValidCollection(arg_collection)
       THEN /\ pc' = "dead"
            /\ outcome' = "ValueError"
            /\ UNCHANGED <<self_vars, local_tiles>>
       ELSE /\ base_url_s3' = "s3://" \o arg_collection \o "/"
            /\ base_url_http' = "http://" \o arg_collection \o ".s3.amazonaws.com/"
            /\ bbox' = arg_bbox
            /\ overwrite' = arg_overwrite
            /\ arcsecond' = ArcsecondOf(arg_collection)
            /\ local_tiles' = <<>>
            /\ attrs' = ConstructedAttrs
            /\ pc' = "idle"
            /\ outcome' = "returned"
    /\ UNCHANGED <<world_vars, url_vars, dl_vars, vrt_vars, disk, p_vars>>

Abs(n) == IF n < 0 THEN -n ELSE n

Digit(d) == <<"0", "1", "2", "3", "4", "5", "6", "7", "8", "9">>[d + 1]

\* str(n) of a non-negative integer: its decimal digits.
RECURSIVE IntStr(_)
IntStr(n) == IF n < 10 THEN Digit(n) ELSE IntStr(n \div 10) \o Digit(n % 10)

\* s.zfill(w) of a string without a sign.
RECURSIVE ZFill(_, _)
ZFill(s, w) == IF Len(s) >= w THEN s ELSE ZFill("0" \o s, w)

\* A plausible slip: the longitude left unpadded, like the latitude.
LonStrUnpadded(lon) ==
    IF lon < 0 THEN "W" \o IntStr(Abs(lon)) ELSE "E" \o IntStr(Abs(lon))

\* "W" + str(abs(lon)).zfill(3), or "E" + ...
LonStr(lon) ==
    IF lon < 0 THEN "W" \o ZFill(IntStr(Abs(lon)), 3)
    ELSE "E" \o ZFill(IntStr(Abs(lon)), 3)

\* "S" + str(abs(lat)), or "N" + ...
LatStr(lat) ==
    IF lat < 0 THEN "S" \o IntStr(Abs(lat)) ELSE "N" \o IntStr(Abs(lat))

\* int(np.floor(x))
Floor(x) == x \div Scale

\* A plausible slip: the upper corner floored like the lower one.
CeilAsFloor(x) == x \div Scale

\* int(np.ceil(x))
Ceil(x) == -((-x) \div Scale)

\* np.arange(a, b, 1)
Arange(a, b) == [n \in 1..(IF b > a THEN b - a ELSE 0) |-> a + n - 1]

BaseFolderOf(r, lat, lon) ==
    "Copernicus_DSM_COG_" \o r \o "0_" \o lat \o "_00_" \o lon \o "_00_DEM/"

DemFileOf(r, lat, lon) ==
    "Copernicus_DSM_COG_" \o r \o "0_" \o lat \o "_00_" \o lon \o "_00_DEM.tif"

\* The s3 URL build_urls probes for a cell, on an instance of collection c.
S3UrlOf(c, lon, lat) ==
    "s3://" \o c \o "/" \o BaseFolderOf(ArcsecondOf(c), LatStr(lat), LonStr(lon))
        \o DemFileOf(ArcsecondOf(c), LatStr(lat), LonStr(lon))

\* The cells build_urls enumerates for a bounding box.
CellsOf(box) ==
    {<<lon, lat>> : lon \in Range(Arange(Floor(box[1]), Ceil(box[3]) + 1)),
                    lat \in Range(Arange(Floor(box[2]), Ceil(box[4]) + 1))}

\* The URLs an instance built from (c, box) can probe.
CandidateUrls(c, box) ==
    IF ValidCollection(c)
    THEN {S3UrlOf(c, cell[1], cell[2]) : cell \in CellsOf(box)}
    ELSE {}

RECURSIVE Join(_, _)
Join(strs, sep) ==
    IF strs = <<>> THEN ""
    ELSE IF Len(strs) = 1 THEN strs[1]
    ELSE strs[1] \o sep \o Join(Tail(strs), sep)

\* A plausible slip: the list of the previous call kept.
ListKept(urls) == urls

\* self.s3_urls = [] and self.http_urls = []
EmptiedList(urls) == <<>>

\* The first lines of build_urls: the lists are emptied, the corners rounded
\* outwards, the coordinate strings built.
BeginBuildUrls ==
    /\ s3_urls' = EmptiedList(s3_urls)
    /\ http_urls' = EmptiedList(http_urls)
    /\ attrs' = attrs \cup {"s3_urls", "http_urls"}
    /\ LET xmin == Floor(bbox[1])
           ymin == Floor(bbox[2])
           xmax == Ceil(bbox[3])
           ymax == Ceil(bbox[4])
           lo == Arange(xmin, xmax + 1)
           la == Arange(ymin, ymax + 1)
       IN  /\ lons' = lo
           /\ lats' = la
           /\ lons_str' = [n \in 1..Len(lo) |-> LonStr(lo[n])]
           /\ lats_str' = [n \in 1..Len(la) |-> LatStr(la[n])]
    /\ missing_tiles' = <<>>
    /\ i_lon' = 1
    /\ i_lat' = 1
    /\ error_message' = ""
    /\ bu_status' = "running"
    /\ probed' = <<>>
    /\ pc' = "probing"
    /\ outcome' = "running"
    /\ UNCHANGED <<base_url_s3, base_url_http, bbox, overwrite, arcsecond,
                   world_vars, disk, local_tiles, p_vars>>

\* Copernicus.build_urls, called by the client.
build_urls ==
    /\ pc = "idle"
    /\ op' = "build_urls"
    /\ BeginBuildUrls
    /\ UNCHANGED <<dl_vars, vrt_vars>>

\* A plausible slip: the list restarted at every failure.
MissingTilesKeepingLast(url) == <<url>>

\* missing_tiles.append(s3_url)
MissingTilesAfter(url) == Append(missing_tiles, url)

\* One turn of the inner loop: the names are built, the tile is opened; a
\* failure is caught and the URL noted.
Probe ==
    /\ pc = "probing"
    /\ i_lon <= Len(lons_str) /\ lats_str # <<>>
    /\ LET lon == lons_str[i_lon]
           lat == lats_str[i_lat]
           base_folder == BaseFolderOf(arcsecond, lat, lon)
           dem_file == DemFileOf(arcsecond, lat, lon)
           s3_url == base_url_s3 \o base_folder \o dem_file
           http_url == base_url_http \o base_folder \o dem_file
           opened == s3_url \in remote
       IN  /\ IF opened
              THEN /\ s3_urls' = Append(s3_urls, s3_url)
                   /\ http_urls' = Append(http_urls, http_url)
                   /\ UNCHANGED missing_tiles
              ELSE /\ missing_tiles' = MissingTilesAfter(s3_url)
                   /\ UNCHANGED <<s3_urls, http_urls>>
           /\ probed' = Append(probed, [lon |-> lons[i_lon], lat |-> lats[i_lat],
                                        url |-> s3_url, opened |-> opened])
    /\ IF i_lat < Len(lats_str)
       THEN /\ i_lat' = i_lat + 1
            /\ i_lon' = i_lon
       ELSE /\ i_lat' = 1
            /\ i_lon' = i_lon + 1
    /\ UNCHANGED <<self_vars, world_vars, dl_vars, vrt_vars, disk, local_tiles,
                   pc, op, outcome, error_message, lons, lats, lons_str,
                   lats_str, bu_status, p_vars>>

\* Where the caller of build_urls goes on.
AfterBuildUrls ==
    CASE op = "download_tiles" -> "dl_plan"
      [] op = "lazy_load_tiles" -> "lazy_open"
      [] op = "build_vrt_from_remote_tiles" -> "vrt_gate"
      [] OTHER -> "idle"

\* The end of build_urls: with a URL found, or with nothing probed, it
\* returns; with every probe failed it raises ValueError, which no caller
\* catches.
FinishBuildUrls ==
    /\ pc = "probing"
    /\ ~(i_lon <= Len(lons_str) /\ lats_str # <<>>)
    /\ IF s3_urls = <<>> /\ missing_tiles # <<>>
       THEN /\ error_message' =
                   "No valid tile URLs found for the specified bounding box. "
                   \o "The following tile URLs are missing or inaccessible:\n"
                   \o Join(missing_tiles, "\n")
            /\ bu_status' = "raised"
            /\ pc' = "idle"
            /\ outcome' = "ValueError"
       ELSE /\ error_message' = ""
            /\ bu_status' = "returned"
            /\ pc' = AfterBuildUrls
            /\ outcome' = IF AfterBuildUrls = "idle" THEN "returned" ELSE "running"
    /\ UNCHANGED <<self_vars, world_vars, dl_vars, vrt_vars, disk, local_tiles,
                   op, s3_urls, http_urls, lons, lats, lons_str, lats_str,
                   i_lon, i_lat, missing_tiles, probed, p_vars>>

\* Corners for the bounding boxes: the four hemispheres of the tests, one
\* next to both zero lines and one next to a change in the number of digits.
Anchors ==
    {<<-122, 48>>, <<8, 46>>, <<-74, -49>>, <<73, -54>>, <<-1, -1>>, <<99, 9>>}

\* xmax - xmin and ymax - ymin: a box below its own minimum, a point, a
\* box narrower than a degree.
Extents == {-(Scale + 1), 0, 1}

WideBoxes ==
    {<<a[1] * Scale + fx, a[2] * Scale + fy,
       a[1] * Scale + fx + dx, a[2] * Scale + fy + dy>> :
        a \in Anchors, fx \in 0..(Scale - 1), fy \in 0..(Scale - 1),
        dx \in Extents, dy \in Extents}

InitUrls ==
    /\ PlanetaryUnused
    /\ CopernicusNew
    /\ arg_collection \in Collections
    /\ arg_bbox \in WideBoxes
    /\ arg_overwrite \in BOOLEAN
    /\ remote \in SUBSET CandidateUrls(arg_collection, arg_bbox)
    /\ disk = {}
    /\ vrt = "absent"

NextUrls ==
    \/ Copernicus_init
    \/ build_urls
    \/ Probe
    \/ FinishBuildUrls

SpecUrls == InitUrls /\ [][NextUrls]_vars

---------------------------------------------------------------------------
(* Copernicus: the claims about construction and build_urls *)

\* The latest build_urls has ended, by returning or by raising.
BuildUrlsEnded == bu_status \in {"returned", "raised"}

\* floor and ceil of a coordinate, by their defining inequalities.
FloorOfDegrees(x) ==
    CHOOSE n \in -200..200 : n * Scale <= x /\ x < (n + 1) * Scale

CeilOfDegrees(x) ==
    CHOOSE n \in -200..200 : (n - 1) * Scale < x /\ x <= n * Scale

\* The cells of floor(xmin)..ceil(xmax) by floor(ymin)..ceil(ymax), by
\* longitude ascending and, within one longitude, by latitude ascending.
ExpectedCells(box) ==
    LET x0 == FloorOfDegrees(box[1])
        y0 == FloorOfDegrees(box[2])
        x1 == CeilOfDegrees(box[3])
        y1 == CeilOfDegrees(box[4])
        nlon == IF x1 >= x0 THEN x1 - x0 + 1 ELSE 0
        nlat == IF y1 >= y0 THEN y1 - y0 + 1 ELSE 0
    IN  [n \in 1..(nlon * nlat) |->
            <<x0 + ((n - 1) \div nlat), y0 + ((n - 1) % nlat)>>]

OpenedProbes == SelectSeq(probed, LAMBDA t : t.opened)

\* C1: build_urls probes exactly the cells with longitude in
\* floor(xmin)..ceil(xmax) and latitude in floor(ymin)..ceil(ymax), by
\* longitude and then latitude ascending, and afterwards s3_urls holds, in
\* that order, the URL of exactly the probed tiles whose open succeeded.
C1_ProbesTheCoveringCells ==
    BuildUrlsEnded =>
        LET cells == ExpectedCells(bbox)
        IN  /\ Len(probed) = Len(cells)
            /\ \A n \in 1..Len(probed) :
                 /\ probed[n].lon = cells[n][1]
                 /\ probed[n].lat = cells[n][2]
                 /\ probed[n].opened <=> probed[n].url \in remote
            /\ s3_urls = [n \in 1..Len(OpenedProbes) |-> OpenedProbes[n].url]

\* C1's case: a box over two longitudes and two latitudes west of
\* Greenwich, one tile of which is missing.
C1_Witness ==
    /\ bu_status = "returned"
    /\ Len(probed) = 4
    /\ Len(s3_urls) = 3
    /\ probed[1].lon < 0
    /\ ~probed[2].opened

\* The tile URL as the claim spells it.
Pad3(n) ==
    IF n < 10 THEN "00" \o ToString(n)
    ELSE IF n < 100 THEN "0" \o ToString(n) ELSE ToString(n)

ClaimedName(r, lon, lat) ==
    "Copernicus_DSM_COG_" \o r \o "0_"
        \o (IF lat < 0 THEN "S" ELSE "N") \o ToString(IF lat < 0 THEN -lat ELSE lat)
        \o "_00_"
        \o (IF lon < 0 THEN "W" ELSE "E") \o Pad3(IF lon < 0 THEN -lon ELSE lon)
        \o "_00_DEM"

ClaimedUrl(base, r, lon, lat) ==
    base \o ClaimedName(r, lon, lat) \o "/" \o ClaimedName(r, lon, lat) \o ".tif"

ClaimedResolution == IF arg_collection = "copernicus-dem-90m" THEN "3" ELSE "1"

\* Every cell any of the model's bounding boxes covers.
WorldCells == UNION {CellsOf(b) : b \in WideBoxes}

\* C2: every URL build_urls builds for a cell is base + NAME + "/" + NAME +
\* ".tif" with NAME as the claim spells it, for the s3 and the http base
\* alike, and distinct cells yield distinct URLs.
C2_TileUrlFormat ==
    BuildUrlsEnded =>
        /\ \A n \in 1..Len(probed) :
             probed[n].url = ClaimedUrl("s3://" \o arg_collection \o "/",
                                        ClaimedResolution,
                                        probed[n].lon, probed[n].lat)
        /\ Len(http_urls) = Len(OpenedProbes)
        /\ \A n \in 1..Len(http_urls) :
             http_urls[n] =
                 ClaimedUrl("http://" \o arg_collection \o ".s3.amazonaws.com/",
                            ClaimedResolution,
                            OpenedProbes[n].lon, OpenedProbes[n].lat)
        /\ \A m, n \in 1..Len(probed) : m # n => probed[m].url # probed[n].url
        /\ Cardinality({S3UrlOf(arg_collection, c[1], c[2]) : c \in WorldCells})
               = Cardinality(WorldCells)

\* C2's case: a box across both zero lines, whose four names carry W001,
\* E000, S1 and N0, with a tile found.
C2_Witness ==
    /\ BuildUrlsEnded
    /\ Len(probed) = 4
    /\ probed[1].lon = -1 /\ probed[1].lat = -1
    /\ probed[4].lon = 0 /\ probed[4].lat = 0
    /\ http_urls # <<>>

\* The lines of a message, joined from the back.
RECURSIVE Lines(_)
Lines(strs) ==
    IF Len(strs) = 1 THEN strs[1]
    ELSE Lines(SubSeq(strs, 1, Len(strs) - 1)) \o "\n" \o strs[Len(strs)]

\* C5: a failed probe is caught and the enumeration goes on: when
\* build_urls ends every candidate tile was probed and is in exactly one of
\* s3_urls (opened) and missing_tiles (failed); ValueError is raised only
\* when no probe succeeded, and its message lists every missing tile URL.
C5_FailedProbeIsCaught ==
    /\ bu_status = "running" => pc = "probing"
    /\ BuildUrlsEnded =>
        /\ Len(probed) = Cardinality(CellsOf(bbox))
        /\ Len(s3_urls) + Len(missing_tiles) = Len(probed)
        /\ \A n \in 1..Len(probed) :
             /\ (probed[n].url \in Range(s3_urls))
                    # (probed[n].url \in Range(missing_tiles))
             /\ probed[n].url \in Range(s3_urls) <=> probed[n].opened
        /\ bu_status = "raised" =>
             /\ outcome = "ValueError"
             /\ \A n \in 1..Len(probed) : ~probed[n].opened
             /\ probed # <<>>
             /\ error_message =
                    "No valid tile URLs found for the specified bounding box. "
                    \o "The following tile URLs are missing or inaccessible:\n"
                    \o Lines([n \in 1..Len(probed) |-> probed[n].url])
        /\ (\E n \in 1..Len(probed) : probed[n].opened) => bu_status = "returned"

\* C5's case: the first two probes fail, a later one succeeds, and
\* build_urls returns.
C5_Witness ==
    /\ bu_status = "returned"
    /\ Len(probed) = 4
    /\ ~probed[1].opened /\ ~probed[2].opened /\ probed[4].opened
    /\ Len(missing_tiles) >= 2

\* C7: Copernicus(...) with a collection other than the two valid ones
\* raises ValueError with no attribute set; with a valid one it succeeds,
\* local_tiles starts empty and the base URLs are s3://<collection>/ and
\* http://<collection>.s3.amazonaws.com/.
C7_ConstructorValidates ==
    pc # "new" =>
        IF arg_collection \notin {"copernicus-dem-90m", "copernicus-dem-30m"}
        THEN pc = "dead" /\ outcome = "ValueError" /\ attrs = {}
        ELSE /\ pc # "dead"
             /\ {"base_url_s3", "base_url_http", "bbox", "output_folder",
                 "overwrite", "arcsecond", "fs", "local_tiles"} \subseteq attrs
             /\ op = "__init__" => outcome = "returned" /\ local_tiles = <<>>
             /\ arg_collection = "copernicus-dem-90m" =>
                    /\ base_url_s3 = "s3://copernicus-dem-90m/"
                    /\ base_url_http = "http://copernicus-dem-90m.s3.amazonaws.com/"
             /\ arg_collection = "copernicus-dem-30m" =>
                    /\ base_url_s3 = "s3://copernicus-dem-30m/"
                    /\ base_url_http = "http://copernicus-dem-30m.s3.amazonaws.com/"

\* C7's case: construction with the invalid collection has raised.
C7_Witness ==
    /\ op = "__init__"
    /\ arg_collection = "copernicus-dem-10m"
    /\ outcome = "ValueError"

---------------------------------------------------------------------------
(* Copernicus: download_tiles, lazy_load_tiles and the VRT builders *)

\* Path(url).name of a URL build_urls built: the file name that closes it.
PathName(url) ==
    LET t == CHOOSE t \in Range(lons_str) \X Range(lats_str) :
                 url = base_url_s3 \o BaseFolderOf(arcsecond, t[2], t[1])
                                   \o DemFileOf(arcsecond, t[2], t[1])
    IN  DemFileOf(arcsecond, t[2], t[1])

\* Path(self.output_folder.rstrip("/") + "/", Path(url).name)
TilePath(url) == OutputFolder \o "/" \o PathName(url)

\* The tile files an instance built from (c, box) can find or write.
TileFilesOf(c, box) ==
    {OutputFolder \o "/" \o DemFileOf(ArcsecondOf(c), LatStr(cell[2]), LonStr(cell[1])) :
        cell \in CellsOf(box)}

\* Copernicus.download_tiles(overwrite), called by the client: build_urls
\* comes first.
download_tiles ==
    /\ pc = "idle"
    /\ op' = "download_tiles"
    /\ \E given \in BOOLEAN : dl_overwrite' = given
    /\ BeginBuildUrls
    /\ output_files' = <<>>
    /\ to_download' = <<>>
    /\ dl_j' = 0
    /\ written' = <<>>
    /\ disk_at_call' = disk
    /\ UNCHANGED vrt_vars

\* fn.exists() and not overwrite: overwrite is the parameter of
\* download_tiles.
SkipsTile(fn) == fn \in disk /\ ~dl_overwrite

\* The loop over output_files that fills to_download.
RECURSIVE ToDownloadFrom(_, _, _)
ToDownloadFrom(files, n, acc) ==
    IF n > Len(files) THEN acc
    ELSE IF SkipsTile(files[n])
         THEN ToDownloadFrom(files, n + 1, acc)
         ELSE ToDownloadFrom(files, n + 1, Append(acc, <<s3_urls[n], files[n]>>))

\* download_tiles after build_urls returned: the output paths, the
\* existence checks, and the early return when nothing is left to download.
DownloadPlan ==
    /\ pc = "dl_plan"
    /\ LET files == [n \in 1..Len(s3_urls) |-> TilePath(s3_urls[n])]
           todo == ToDownloadFrom(files, 1, <<>>)
       IN  /\ output_files' = files
           /\ to_download' = todo
           /\ pc' = IF todo = <<>> THEN "idle" ELSE "dl_write"
           /\ outcome' = IF todo = <<>> THEN "returned" ELSE "running"
    /\ UNCHANGED <<self_vars, world_vars, url_vars, vrt_vars, disk, local_tiles,
                   op, dl_overwrite, dl_j, written, disk_at_call, p_vars>>

\* One turn of "for url, fn in to_download"; after the last one local_tiles
\* is set and the call returns.
DownloadWrite ==
    /\ pc = "dl_write"
    /\ dl_j < Len(to_download)
    /\ disk' = disk \cup {to_download[dl_j + 1][2]}
    /\ written' = Append(written, to_download[dl_j + 1][2])
    /\ dl_j' = dl_j + 1
    /\ IF dl_j + 1 = Len(to_download)
       THEN /\ local_tiles' = output_files
            /\ pc' = "idle"
            /\ outcome' = "returned"
       ELSE UNCHANGED <<local_tiles, pc, outcome>>
    /\ UNCHANGED <<self_vars, world_vars, url_vars, vrt_vars, op, dl_overwrite,
                   output_files, to_download, disk_at_call, p_vars>>

\* The open or the write of a tile raises: nothing catches it.
DownloadWriteFails ==
    /\ pc = "dl_write"
    /\ dl_j < Len(to_download)
    /\ pc' = "idle"
    /\ outcome' = "raised"
    /\ UNCHANGED <<self_vars, world_vars, url_vars, vrt_vars, dl_vars, disk,
                   local_tiles, op, p_vars>>

\* Copernicus.lazy_load_tiles, called by the client.
lazy_load_tiles ==
    /\ pc = "idle"
    /\ op' = "lazy_load_tiles"
    /\ BeginBuildUrls
    /\ UNCHANGED <<dl_vars, vrt_vars>>

\* Every URL is opened and the arrays are combined.
LazyLoadReturns ==
    /\ pc = "lazy_open"
    /\ pc' = "idle"
    /\ outcome' = "returned"
    /\ UNCHANGED <<self_vars, world_vars, url_vars, vrt_vars, dl_vars, disk,
                   local_tiles, op, p_vars>>

\* An open raises.
LazyLoadFails ==
    /\ pc = "lazy_open"
    /\ s3_urls # <<>>
    /\ pc' = "idle"
    /\ outcome' = "raised"
    /\ UNCHANGED <<self_vars, world_vars, url_vars, vrt_vars, dl_vars, disk,
                   local_tiles, op, p_vars>>

\* Copernicus.build_vrt_from_remote_tiles(), called by the client.
build_vrt_from_remote_tiles ==
    /\ pc = "idle"
    /\ op' = "build_vrt_from_remote_tiles"
    /\ BeginBuildUrls
    /\ vrt_at_call' = vrt
    /\ arg_local_tiles' = <<>>
    /\ command' = ""
    /\ ran_cmd' = FALSE
    /\ UNCHANGED <<vrt, dl_vars>>

\* A plausible slip: the file never removed.
VrtNeverUnlinked == vrt

\* if self.overwrite: output_file.unlink(missing_ok=True)
VrtAfterUnlink == IF overwrite THEN "absent" ELSE vrt

\* Both builders from "output_file = ..." to the existence test: the file is
\* removed under overwrite, the command line is put together, and the build
\* is skipped when the file is still there.
VrtGate(tiles) ==
    LET output_file == OutputFolder \o "/" \o "combined.vrt"
    IN  /\ vrt' = VrtAfterUnlink
        /\ command' = Join(<<"gdalbuildvrt", output_file>> \o tiles, " ")
        /\ pc' = IF VrtAfterUnlink # "absent" THEN "idle" ELSE "run_cmd"
        /\ outcome' = IF VrtAfterUnlink # "absent" THEN "returned" ELSE "running"

\* build_vrt_from_remote_tiles after build_urls returned.
RemoteVrtGate ==
    /\ pc = "vrt_gate"
    /\ VrtGate(http_urls)
    /\ UNCHANGED <<self_vars, world_vars, url_vars, dl_vars, disk, local_tiles,
                   op, vrt_at_call, arg_local_tiles, ran_cmd, p_vars>>

\* The local_tiles a client passes: none, or a list of its own.
LocalTileArgs == {<<>>, <<"tiles/a.tif">>}

\* Copernicus.build_vrt_from_local_tiles(local_tiles), called by the client.
build_vrt_from_local_tiles ==
    /\ pc = "idle"
    /\ op' = "build_vrt_from_local_tiles"
    /\ vrt_at_call' = vrt
    /\ ran_cmd' = FALSE
    /\ \E given \in LocalTileArgs :
         /\ arg_local_tiles' = given
         /\ IF given = <<>> /\ local_tiles = <<>>
            THEN /\ pc' = "idle"
                 /\ outcome' = "ValueError"
                 /\ command' = ""
                 /\ UNCHANGED vrt
            ELSE VrtGate(IF given = <<>> THEN local_tiles ELSE given)
    /\ UNCHANGED <<self_vars, world_vars, url_vars, dl_vars, disk, local_tiles,
                   p_vars>>

\* subprocess.run(command, shell=True, check=True): gdalbuildvrt writes the
\* VRT.
RunCommand ==
    /\ pc = "run_cmd"
    /\ ran_cmd' = TRUE
    /\ vrt' = command
    /\ pc' = "idle"
    /\ outcome' = "returned"
    /\ UNCHANGED <<self_vars, world_vars, url_vars, dl_vars, disk, local_tiles,
                   op, vrt_at_call, arg_local_tiles, command, p_vars>>

\* gdalbuildvrt exits non-zero, having written nothing: check=True raises
\* CalledProcessError.
RunCommandFails ==
    /\ pc = "run_cmd"
    /\ ran_cmd' = TRUE
    /\ pc' = "idle"
    /\ outcome' = "CalledProcessError"
    /\ UNCHANGED <<self_vars, world_vars, url_vars, dl_vars, disk, local_tiles,
                   op, vrt, vrt_at_call, arg_local_tiles, command, p_vars>>

\* Boxes of the NE hemisphere test's corner: one tile, two tiles, and a
\* box whose ymax is below its ymin.
FewBoxes ==
    {<<8 * Scale, 46 * Scale, 8 * Scale, 46 * Scale>>,
     <<8 * Scale, 46 * Scale + 1, 8 * Scale, 46 * Scale + 1>>,
     <<8 * Scale, 46 * Scale, 8 * Scale, 45 * Scale - 1>>}

InitTiles ==
    /\ PlanetaryUnused
    /\ CopernicusNew
    /\ arg_collection \in VALID_COLLECTIONS
    /\ arg_bbox \in FewBoxes
    /\ arg_overwrite \in BOOLEAN
    /\ remote \in SUBSET CandidateUrls(arg_collection, arg_bbox)
    /\ disk \in SUBSET TileFilesOf(arg_collection, arg_bbox)
    /\ vrt \in {"absent", "preexisting"}

NextTiles ==
    \/ Copernicus_init
    \/ build_urls
    \/ Probe
    \/ FinishBuildUrls
    \/ download_tiles
    \/ DownloadPlan
    \/ DownloadWrite
    \/ DownloadWriteFails
    \/ lazy_load_tiles
    \/ LazyLoadReturns
    \/ LazyLoadFails
    \/ build_vrt_from_remote_tiles
    \/ RemoteVrtGate
    \/ build_vrt_from_local_tiles
    \/ RunCommand
    \/ RunCommandFails

SpecTiles == InitTiles /\ [][NextTiles]_vars

---------------------------------------------------------------------------
(* Copernicus: the claims about download_tiles and the VRT builders *)

\* download_tiles has returned normally.
DownloadTilesReturned ==
    pc = "idle" /\ op = "download_tiles" /\ outcome = "returned"

\* C8: after download_tiles returns normally, local_tiles lists the local
\* path of every tile found for the bounding box, downloaded now or already
\* on disk, so that build_vrt_from_local_tiles() finds tiles and does not
\* raise; whatever the output folder held.
C8_LocalTilesAfterDownload ==
    (DownloadTilesReturned /\ s3_urls # <<>>) =>
        /\ local_tiles # <<>>
        /\ \A n \in 1..Len(s3_urls) : TilePath(s3_urls[n]) \in Range(local_tiles)

\* C9: the overwrite flag of the constructor governs download_tiles(): on
\* an instance built with overwrite=True every tile that was already in the
\* output folder is written again, on one built with overwrite=False no
\* such tile is written.
C9_ConstructorOverwriteGoverns ==
    (DownloadTilesReturned /\ ~dl_overwrite) =>
        /\ overwrite =>
             \A n \in 1..Len(output_files) :
                 output_files[n] \in disk_at_call => output_files[n] \in Range(written)
        /\ ~overwrite =>
             \A n \in 1..Len(written) : written[n] \notin disk_at_call

\* A call of one of the two VRT builders has ended.
VrtCallEnded ==
    /\ pc = "idle"
    /\ op \in {"build_vrt_from_remote_tiles", "build_vrt_from_local_tiles"}

\* What C10 says of a call that has ended.
VrtOverwriteRule ==
    /\ ran_cmd <=> (overwrite \/ vrt_at_call = "absent")
    /\ (vrt_at_call # "absent" /\ ~overwrite) => (vrt = vrt_at_call /\ ~ran_cmd)
    /\ outcome = "CalledProcessError" => vrt = "absent"

\* C10 as stated: for both builders, gdalbuildvrt is run if and only if
\* overwrite is True or the VRT file does not exist at call time; an
\* existing file is left unchanged when overwrite is False; under overwrite
\* the file is removed before the command runs, so a failing command leaves
\* no VRT file behind.
C10_AsStated ==
    /\ pc = "run_cmd" => vrt = "absent"
    /\ VrtCallEnded => VrtOverwriteRule

\* C10, amended: the same, for the calls that get as far as the VRT file,
\* that is, whose build_urls or local-tiles check did not raise ValueError.
C10_VrtOverwriteRule ==
    /\ pc = "run_cmd" => vrt = "absent"
    /\ (VrtCallEnded /\ outcome # "ValueError") => VrtOverwriteRule

\* C10's case: under overwrite an existing VRT file was removed, the command
\* ran and failed, and no file is left.
C10_Witness ==
    /\ VrtCallEnded
    /\ overwrite
    /\ vrt_at_call = "preexisting"
    /\ outcome = "CalledProcessError"
    /\ vrt = "absent"

---------------------------------------------------------------------------
(* Copernicus: the claims about the width of the names, the outcome of    *)
(* build_urls and the two URL lists                                        *)

\* A bounding box of valid coordinates, west to east and south to north.
InWorld(box) ==
    /\ -180 * Scale <= box[1] /\ box[1] <= box[3] /\ box[3] <= 180 * Scale
    /\ -90 * Scale <= box[2] /\ box[2] <= box[4] /\ box[4] <= 90 * Scale

\* C12: for a bounding box with latitudes in -90..90 and longitudes in
\* -180..180, the coordinate fields of every tile name have a fixed width:
\* the hemisphere letter and two digits for the latitude, the letter and
\* three digits for the longitude.
C12_FixedWidthFields ==
    (BuildUrlsEnded /\ InWorld(bbox) /\ probed # <<>>) =>
        /\ \A n \in 1..Len(lats_str) : Len(lats_str[n]) = 3
        /\ \A n \in 1..Len(lons_str) : Len(lons_str[n]) = 4

\* C13: a call of build_urls, direct or through download_tiles,
\* lazy_load_tiles or build_vrt_from_remote_tiles, either returns with at
\* least one URL in s3_urls or raises ValueError; it never returns with
\* s3_urls empty.
C13_ReturnsWithUrlsOrRaises ==
    /\ bu_status = "returned" => s3_urls # <<>>
    /\ bu_status = "raised" => outcome = "ValueError"

\* The tile path of a cell: the part of its URL after the base.
TilePathOfCell(cell) ==
    ClaimedName(ClaimedResolution, cell[1], cell[2]) \o "/"
        \o ClaimedName(ClaimedResolution, cell[1], cell[2]) \o ".tif"

\* The cells of the box whose tile the remote store holds, in probing order.
CellsOnRemote ==
    SelectSeq(ExpectedCells(bbox),
              LAMBDA cell : ("s3://" \o arg_collection \o "/" \o TilePathOfCell(cell))
                                \in remote)

\* C14: after build_urls, s3_urls and http_urls have the same length and
\* entry i of both names the same tile path; both hold what the latest call
\* found and nothing of earlier calls, so that with the remote data
\* unchanged a repeated call yields the same lists, without duplicates.
C14_ListsOfTheLatestCall ==
    BuildUrlsEnded =>
        /\ Len(s3_urls) = Len(http_urls)
        /\ Len(s3_urls) = Len(CellsOnRemote)
        /\ \A n \in 1..Len(s3_urls) :
             /\ s3_urls[n] = base_url_s3 \o TilePathOfCell(CellsOnRemote[n])
             /\ http_urls[n] = base_url_http \o TilePathOfCell(CellsOnRemote[n])
        /\ NoDuplicates(s3_urls)
        /\ NoDuplicates(http_urls)

\* C14's case: build_vrt_from_remote_tiles has returned on an instance whose
\* download_tiles had set local_tiles: build_urls ran at least twice, and
\* found two tiles.
C14_Witness ==
    /\ pc = "idle"
    /\ op = "build_vrt_from_remote_tiles"
    /\ bu_status = "returned"
    /\ local_tiles # <<>>
    /\ Len(s3_urls) = 2

=============================================================================
